---- MODULE Spec2Model ----
(***************************************************************************)
(* A model of the Pallas backend of the ecc library (package pallas:       *)
(* element arithmetic, encoding, hash-to-curve) and of the once-only       *)
(* construction of the group singletons (packages pallas and nist).        *)
(*                                                                         *)
(* The element code is written against e.field.Order(), so the model is    *)
(* written against a field f as well and is run over two fields:           *)
(*   - "pallasBase": the Pallas base field, p = 2^254 + ..., whose         *)
(*     integers are kept as 22 limbs of 12 bits (wide arithmetic);         *)
(*   - "toyBase": the field of ToyP elements, a scaled-down field of the   *)
(*     same shape (ToyP = 1 mod 4, 5 and -13 are non-squares, the curve    *)
(*     y^2 = x^3 + 5 has prime order, (-1, 2) generates it), over which    *)
(*     the reachable states can be enumerated exhaustively.                *)
(***************************************************************************)
EXTENDS Integers, Sequences, FiniteSets, TLC

VARIABLES e, pc, call, loc, once, mem, caller

vars == <<e, pc, call, loc, once, mem, caller>>

Nil == "nil"

(***************************************************************************)
(* math/big integers.  A narrow integer is a TLC integer; a wide integer   *)
(* is a little-endian sequence of NumLimbs limbs below LimbBase.           *)
(***************************************************************************)
LimbBits == 12
LimbBase == 2 ^ LimbBits
NumLimbs == 22

Rev(s) == SubSeq([i \in 1..Len(s) |-> s[Len(s) + 1 - i]], 1, Len(s))

Min(a, b) == IF a < b THEN a ELSE b

\* a local: fn maps the one value of the local to what follows, and Let(fn) is that
Let(fn) == fn[CHOOSE v \in DOMAIN fn : TRUE]

Never(s) == FALSE

\* a loop's state with its exit test
ItLeaf(Done(_), s) == <<s, Done(s)>>

\* n iterations at most from p = <<s, Done(s)>>: the first half, then the rest
RECURSIVE ItPair(_, _, _, _)
ItPair(Step(_), Done(_), p, n) ==
    IF p[2] THEN p
    ELSE IF n = 1 THEN ItLeaf(Done, Step(p[1]))
    ELSE ItPair(Step, Done, ItPair(Step, Done, p, n \div 2), n - (n \div 2))

\* A loop: Step applied to s until Done, n times at most.
Iterate(Step(_), Done(_), s, n) ==
    IF n <= 0 THEN s ELSE ItPair(Step, Done, ItLeaf(Done, s), n)[1]

\* carry propagation over the n limbs of c (limbs may be negative or too big)
wCarry(c, n, carry, acc) ==
    LET Step(s) == <<(s[3][Len(s[2]) + 1] + s[1]) \div LimbBase,
                     Append(s[2], (s[3][Len(s[2]) + 1] + s[1]) % LimbBase), s[3]>>
    IN Iterate(Step, Never, <<carry, acc, SubSeq(c, 1, n)>>, n - Len(acc))[2]

\* the integer k, 0 <= k < LimbBase
wInt(k) == SubSeq([i \in 1..NumLimbs |-> IF i = 1 THEN k ELSE 0], 1, NumLimbs)

\* a >= b, for a and b of the same length: decided by the highest limb that differs
wGeq(a, b) ==
    \A i \in 1..Len(a) : a[i] >= b[i] \/ \E j \in (i + 1)..Len(a) : a[j] > b[j]

\* t - pp if t >= pp, else t (t and pp of NumLimbs + 1 limbs)
wCondSub(t, pp) ==
    IF wGeq(t, pp)
    THEN wCarry([i \in 1..(NumLimbs + 1) |-> t[i] - pp[i]], NumLimbs + 1, 0, <<>>)
    ELSE t

wAddMod(a, b, p) ==
    IF Len(a) # NumLimbs \/ Len(b) # NumLimbs THEN <<>>
    ELSE SubSeq(wCondSub(wCarry([i \in 1..(NumLimbs + 1) |-> IF i <= NumLimbs THEN a[i] + b[i] ELSE 0],
                                NumLimbs + 1, 0, <<>>),
                         Append(p, 0)),
                1, NumLimbs)

wSubMod(a, b, p) ==
    IF Len(a) # NumLimbs \/ Len(b) # NumLimbs THEN <<>>
    ELSE IF wGeq(a, b)
    THEN wCarry([i \in 1..NumLimbs |-> a[i] - b[i]], NumLimbs, 0, <<>>)
    ELSE wCarry([i \in 1..NumLimbs |-> a[i] + p[i] - b[i]], NumLimbs, 0, <<>>)

\* (r * LimbBase + a * d) mod p, for r, a < p, one limb d, and 2^254 <= p < 2^255:
\* the quotient is estimated from the bits above bit 242 and corrected
wStep(r, a, d, p) ==
    Let([t \in {wCarry([i \in 1..(NumLimbs + 1) |->
                  (IF i > 1 THEN r[i - 1] ELSE 0) + (IF i <= NumLimbs THEN a[i] * d ELSE 0)],
               NumLimbs + 1, 0, <<>>)} |->
    Let([q \in {((t[21] \div 4) + t[22] * 1024 + t[23] * 4194304) \div ((p[21] \div 4) + p[22] * 1024 + 1)} |->
    Let([pp \in {Append(p, 0)} |->
    SubSeq(wCondSub(wCondSub(wCondSub(
               wCarry([i \in 1..(NumLimbs + 1) |-> t[i] - (IF i <= NumLimbs THEN q * p[i] ELSE 0)],
                      NumLimbs + 1, 0, <<>>), pp), pp), pp),
           1, NumLimbs)])])])

\* a * b mod p, for a, b < p: Horner's rule over the limbs of b
wMulMod(a, b, p) ==
    LET Step(s) == <<wStep(s[1], a, b[s[2]], p), s[2] - 1>>
    IN IF Len(a) # NumLimbs \/ Len(b) # NumLimbs THEN <<>>
       ELSE Iterate(Step, Never, <<wInt(0), NumLimbs>>, NumLimbs)[1]

\* bit k of x, bit 0 the least significant
wBit(x, k) == (x[(k \div LimbBits) + 1] \div (2 ^ (k % LimbBits))) % 2

\* a^x mod p by square-and-multiply over the bits of x, most significant first
wExpMod(a, x, p) ==
    LET Mul(sq, k) == <<IF wBit(x, k) = 1 THEN wMulMod(sq, a, p) ELSE sq, k - 1>>
        Step(s) == Mul(wMulMod(s[1], s[1], p), s[2])
    IN IF Len(a) # NumLimbs \/ Len(x) # NumLimbs THEN <<>>
       ELSE Iterate(Step, Never, <<wInt(1), LimbBits * NumLimbs - 1>>, LimbBits * NumLimbs)[1]

\* a >> 1
wRsh1(a) == SubSeq([i \in 1..NumLimbs |->
                (a[i] \div 2) + (IF i < NumLimbs THEN (a[i + 1] % 2) * (LimbBase \div 2) ELSE 0)], 1, NumLimbs)

\* (a + b) >> 1 for a, b < p
wHalfSum(a, b) ==
    Let([s \in {wCarry([i \in 1..(NumLimbs + 1) |-> IF i <= NumLimbs THEN a[i] + b[i] ELSE 0],
               NumLimbs + 1, 0, <<>>)} |->
    SubSeq([i \in 1..NumLimbs |-> (s[i] \div 2) + (s[i + 1] % 2) * (LimbBase \div 2)], 1, NumLimbs)])

\* x / 2 mod p for odd p
wHalfMod(x, p) == IF x[1] % 2 = 0 THEN wRsh1(x) ELSE wHalfSum(x, p)

\* binary extended Euclid on s = <<u, v, x1, x2>>: u = x1 * a, v = x2 * a (mod p)
wInvDone(s) == s[1] = wInt(1) \/ s[2] = wInt(1)

wInvIter(s, p) ==
    IF s[1][1] % 2 = 0 THEN <<wRsh1(s[1]), s[2], wHalfMod(s[3], p), s[4]>>
    ELSE IF s[2][1] % 2 = 0 THEN <<s[1], wRsh1(s[2]), s[3], wHalfMod(s[4], p)>>
    ELSE IF wGeq(s[1], s[2])
         THEN <<wSubMod(s[1], s[2], p), s[2], wSubMod(s[3], s[4], p), s[4]>>
         ELSE <<s[1], wSubMod(s[2], s[1], p), s[3], wSubMod(s[4], s[3], p)>>

\* big.Int.ModInverse for a prime p and a in 1..p-1; the loop ends within
\* 4 * LimbBits * NumLimbs iterations
wModInverse(a, p) ==
    LET Step(s) == wInvIter(s, p)
    IN Let([s \in {Iterate(Step, wInvDone, <<a, p, wInt(1), wInt(0)>>, 4 * LimbBits * NumLimbs)} |->
       IF s[1] = wInt(1) THEN s[3] ELSE s[4]])

(***************************************************************************)
(* Fields (field.Field).  Order(f) is f.Order().                           *)
(***************************************************************************)
\* pallasFieldOrder = 0x40000000000000000000000000000000224698fc094cf91b992d30ed00000001
PallasP == Rev(<<
  \h004, \h000, \h000, \h000, \h000, \h000, \h000, \h000, \h000, \h000, \h000,
  \h022, \h469, \h8fc, \h094, \hcf9, \h1b9, \h92d, \h30e, \hd00, \h000, \h001 >>)

\* the scaled-down base field and the order of its curve y^2 = x^3 + 5
ToyP == 37
ToyN == 37

IsWide(f) == f = "pallasBase"

\* further small prime fields, of 2-adicity 1, 4, 5 and 6 (that of ToyP is 2)
SmallOrder(f) ==
    CASE f = "toy11" -> 11
      [] f = "toy17" -> 17
      [] f = "toy97" -> 97
      [] f = "toy193" -> 193
      [] OTHER -> ToyP

Order(f) == IF IsWide(f) THEN PallasP ELSE SmallOrder(f)

\* the integer k (0 <= k < LimbBase) as a big.Int of field f
bInt(f, k) == IF IsWide(f) THEN wInt(k) ELSE k

bMulMod(f, a, b) == IF IsWide(f) THEN wMulMod(a, b, Order(f)) ELSE (a * b) % Order(f)
bAddMod(f, a, b) == IF IsWide(f) THEN wAddMod(a, b, Order(f)) ELSE (a + b) % Order(f)
bSubMod(f, a, b) == IF IsWide(f) THEN wSubMod(a, b, Order(f)) ELSE (a - b) % Order(f)

\* x.Sub(a, b) for a >= b, not reduced
bSub(f, a, b) == IF IsWide(f) THEN wCarry([i \in 1..NumLimbs |-> a[i] - b[i]], NumLimbs, 0, <<>>) ELSE a - b

\* x.Sign() == 0
bIsZero(f, a) == a = bInt(f, 0)

\* x.Bit(0)
bBit0(f, a) == IF IsWide(f) THEN a[1] % 2 ELSE a % 2

\* x.Cmp(y) >= 0
bGeq(f, a, b) == IF IsWide(f) THEN wGeq(a, b) ELSE a >= b

\* x.Rsh(x, 1)
bRsh1(f, a) == IF IsWide(f) THEN wRsh1(a) ELSE a \div 2

\* a^x mod p on native integers, by square-and-multiply
RECURSIVE nExp(_, _, _)
nExp(a, x, p) ==
    IF x = 0 THEN 1 % p
    ELSE LET h == nExp(a, x \div 2, p)
         IN IF x % 2 = 1 THEN (((h * h) % p) * a) % p ELSE (h * h) % p

\* big.Int.Exp(a, x, p)
bExp(f, a, x) == IF IsWide(f) THEN wExpMod(a, x, Order(f)) ELSE nExp(a, x, Order(f))

\* big.Int.ModInverse(a, p) returns nil when a has no inverse: for a in 0..p-1 and p
\* prime, exactly when a = 0
bHasInverse(f, a) == ~bIsZero(f, a)

\* big.Int.ModInverse(a, p) for an invertible a
bModInverse(f, a) ==
    IF IsWide(f) THEN wModInverse(a, Order(f))
    ELSE CHOOSE i \in 1..(Order(f) - 1) : (a * i) % Order(f) = 1

(***************************************************************************)
(* Bytes.  big.Int.Bytes, SetBytes (big-endian).                           *)
(***************************************************************************)
scalarLength == 32
elementLength == 33

Zeros(n) == [i \in 1..n |-> 0]

RECURSIVE nBytes(_)
nBytes(x) == IF x = 0 THEN <<>> ELSE Append(nBytes(x \div 256), x % 256)

nSetBytes(b, acc) ==
    LET Step(s) == <<s[1] * 256 + b[s[2]], s[2] + 1>>
    IN Iterate(Step, Never, <<acc, 1>>, Len(b))[1]

StripZeros(b) ==
    LET Done(s) == s = <<>> \/ Head(s) # 0
    IN Iterate(Tail, Done, SubSeq(b, 1, Len(b)), Len(b))

\* byte j (0 = least significant) of a wide integer: three bytes to two limbs
wByte(a, j) ==
    LET m == j \div 3
        lo == IF 2 * m + 1 <= NumLimbs THEN a[2 * m + 1] ELSE 0
        hi == IF 2 * m + 2 <= NumLimbs THEN a[2 * m + 2] ELSE 0
    IN CASE j % 3 = 0 -> lo % 256
         [] j % 3 = 1 -> (lo \div 256) + (hi % 16) * 16
         [] OTHER     -> hi \div 16

\* limb k (0 = least significant) of the integer whose big-endian bytes are b
wLimbOfBytes(b, k) ==
    LET byte(j) == IF j < Len(b) THEN b[Len(b) - j] ELSE 0
        m == k \div 2
    IN IF k % 2 = 0 THEN byte(3 * m) + (byte(3 * m + 1) % 16) * 256
       ELSE (byte(3 * m + 1) \div 16) + byte(3 * m + 2) * 16

\* x.Bytes(): big-endian, no leading zero
bBytes(f, a) ==
    IF IsWide(f) THEN StripZeros([i \in 1..(scalarLength + 1) |-> wByte(a, scalarLength + 1 - i)])
    ELSE nBytes(a)

\* x.SetBytes(b), for at most scalarLength bytes b
bSetBytes(f, b) ==
    IF IsWide(f) THEN SubSeq([k \in 1..NumLimbs |-> wLimbOfBytes(b, k - 1)], 1, NumLimbs)
    ELSE nSetBytes(b, 0)

(***************************************************************************)
(* Elements: Jacobian coordinates (x, y, z) over field, the affine point   *)
(* being (x / z^2, y / z^3).  An operand is an internal.Element: an,       *)
(* Element of this package (type "pallas"), one of another backend, or nil.*)
(***************************************************************************)
\* curveB = big.NewInt(5)
curveB == 5

\* generatorX = 0x40000000000000000000000000000000224698fc094cf91b992d30ed00000000,
\* that is p - 1; over the scaled-down field it is ToyP - 1
generatorX(f) ==
    IF IsWide(f)
    THEN Rev(<<
      \h004, \h000, \h000, \h000, \h000, \h000, \h000, \h000, \h000, \h000, \h000,
      \h022, \h469, \h8fc, \h094, \hcf9, \h1b9, \h92d, \h30e, \hd00, \h000, \h000 >>)
    ELSE ToyP - 1

\* generatorY = big.NewInt(2)
generatorY == 2

MkElement(f, x, y, z) == [type |-> "pallas", field |-> f, x |-> x, y |-> y, z |-> z]

NilElement == [type |-> Nil, field |-> Nil, x |-> 0, y |-> 0, z |-> 0]

newElement(f) == MkElement(f, bInt(f, 0), bInt(f, 1), bInt(f, 0))

\* a faulty assertElement: the operand's field is not compared with the receiver's
assertElementAnyField(element, f) ==
    IF element.type = Nil THEN "ErrParamNilPoint"
    ELSE IF element.type # "pallas" THEN "ErrCastElement"
    ELSE Nil

\* the fault assertElement raises on element, Nil when it returns
assertElement(element, f) ==
    IF element.type = Nil THEN "ErrParamNilPoint"
    ELSE IF element.type # "pallas" THEN "ErrCastElement"
    ELSE IF element.field # f THEN "ErrWrongField"
    ELSE Nil

\* a faulty Base: the generator's y is off by one
BaseWrongY(r) == MkElement(r.field, generatorX(r.field), bInt(r.field, generatorY + 1), bInt(r.field, 1))

Base(r) == MkElement(r.field, generatorX(r.field), bInt(r.field, generatorY), bInt(r.field, 1))

\* a faulty Identity: z is set to 1, not 0
IdentityWithZOne(r) == MkElement(r.field, bInt(r.field, 0), bInt(r.field, 1), bInt(r.field, 1))

Identity(r) == MkElement(r.field, bInt(r.field, 0), bInt(r.field, 1), bInt(r.field, 0))

isIdentityInternal(r) == bIsZero(r.field, r.z)

Double(r) ==
    IF isIdentityInternal(r) THEN r
    ELSE
    Let([f \in {r.field} |->
    Let([a \in {bMulMod(f, r.x, r.x)} |->
    Let([b \in {bMulMod(f, r.y, r.y)} |->
    Let([c \in {bMulMod(f, b, b)} |->
    Let([xb \in {bAddMod(f, r.x, b)} |->
    Let([d0 \in {bSubMod(f, bSubMod(f, bMulMod(f, xb, xb), a), c)} |->
    Let([d \in {bAddMod(f, d0, d0)} |->
    Let([ee \in {bAddMod(f, bAddMod(f, a, a), a)} |->
    Let([ff \in {bMulMod(f, ee, ee)} |->
    Let([x3 \in {bSubMod(f, bSubMod(f, ff, d), d)} |->
    Let([c2 \in {bAddMod(f, c, c)} |->
    Let([c4 \in {bAddMod(f, c2, c2)} |->
    Let([c8 \in {bAddMod(f, c4, c4)} |->
    Let([y3 \in {bSubMod(f, bMulMod(f, bSubMod(f, d, x3), ee), c8)} |->
    Let([yz \in {bMulMod(f, r.y, r.z)} |->
    Let([z3 \in {bAddMod(f, yz, yz)} |->
    MkElement(f, x3, y3, z3)])])])])])])])])])])])])])])])])

\* the receiver after r.Add(q), for an operand q that assertElement accepts
addElement(r, q) ==
    IF isIdentityInternal(r) THEN MkElement(r.field, q.x, q.y, q.z)
    ELSE IF isIdentityInternal(q) THEN r
    ELSE
    Let([f \in {r.field} |->
    Let([z1z1 \in {bMulMod(f, r.z, r.z)} |->
    Let([z2z2 \in {bMulMod(f, q.z, q.z)} |->
    Let([u1 \in {bMulMod(f, r.x, z2z2)} |->
    Let([u2 \in {bMulMod(f, q.x, z1z1)} |->
    Let([s1 \in {bMulMod(f, bMulMod(f, r.y, q.z), z2z2)} |->
    Let([s2 \in {bMulMod(f, bMulMod(f, q.y, r.z), z1z1)} |->
    Let([h \in {bSubMod(f, u2, u1)} |->
    IF bIsZero(f, h)
    THEN IF bIsZero(f, bSubMod(f, s1, s2)) THEN Double(r) ELSE Identity(r)
    ELSE
    Let([h2 \in {bAddMod(f, h, h)} |->
    Let([i \in {bMulMod(f, h2, h2)} |->
    Let([j \in {bMulMod(f, h, i)} |->
    Let([r0 \in {bSubMod(f, s2, s1)} |->
    Let([rr \in {bAddMod(f, r0, r0)} |->
    Let([v \in {bMulMod(f, u1, i)} |->
    Let([x3 \in {bSubMod(f, bSubMod(f, bSubMod(f, bMulMod(f, rr, rr), j), v), v)} |->
    Let([tmp0 \in {bMulMod(f, s1, j)} |->
    Let([tmp \in {bAddMod(f, tmp0, tmp0)} |->
    Let([y3 \in {bSubMod(f, bMulMod(f, bSubMod(f, v, x3), rr), tmp)} |->
    Let([zz \in {bAddMod(f, r.z, q.z)} |->
    Let([z3 \in {bMulMod(f, bSubMod(f, bSubMod(f, bMulMod(f, zz, zz), z1z1), z2z2), h)} |->
    MkElement(f, x3, y3, z3)])])])])])])])])])])])])])])])])])])])])

\* a call's outcome: the receiver and the operand after it, the fault raised (Nil
\* when the call returns) and the value returned besides the receiver
Outcome(recv, arg, fault, ret) == [recv |-> recv, arg |-> arg, fault |-> fault, ret |-> ret]

Add(r, element) ==
    Let([fault \in {assertElement(element, r.field)} |->
    IF fault # Nil THEN Outcome(r, element, fault, Nil)
    ELSE Outcome(addElement(r, element), element, Nil, Nil)])

\* a faulty Negate: y is left as it is
NegateKeepsY(r) == r

\* a faulty Negate: y is negated and not reduced modulo p
NegateNoMod(r) ==
    IF ~isIdentityInternal(r)
    THEN MkElement(r.field, r.x, 0 - r.y, r.z)
    ELSE r

Negate(r) ==
    IF ~isIdentityInternal(r)
    THEN MkElement(r.field, r.x, bSubMod(r.field, bInt(r.field, 0), r.y), r.z)
    ELSE r

\* neg is a new Element holding the operand's coordinates; it is negated and added
\* a faulty Subtract: the operand is negated in place, not a copy of it
SubtractNegatesOperand(r, element) ==
    Let([fault \in {assertElement(element, r.field)} |->
    IF fault # Nil THEN Outcome(r, element, fault, Nil)
    ELSE Outcome(Add(r, Negate(element)).recv, Negate(element), Nil, Nil)])

Subtract(r, element) ==
    Let([fault \in {assertElement(element, r.field)} |->
    IF fault # Nil THEN Outcome(r, element, fault, Nil)
    ELSE Outcome(Add(r, Negate(MkElement(r.field, element.x, element.y, element.z))).recv,
                 element, Nil, Nil)])

\* scalars (internal.Scalar): nil, a *Scalar of this package holding v, or another backend's
MkScalar(v) == [type |-> "pallas", v |-> v]

NilScalar == [type |-> Nil, v |-> 0]

\* result and base before the loops of Multiply, i and j being those of no iteration
mulStart(result, base, n) == [i |-> n + 1, j |-> 8, bit |-> 0, result |-> result, base |-> base]

\* a faulty iteration, that of a left-to-right loop: result is doubled, then base is
\* added to it if the bit is set
mulStepDoublesResult(a, i, b, j) ==
    [i |-> i, j |-> j, bit |-> b % 2,
     result |-> IF b % 2 = 1 THEN Add(Double(a.result), a.base).recv ELSE Double(a.result),
     base |-> a.base]

\* one iteration of the inner loop, on bit j of byte scalarBytes[i], b being that byte
\* shifted right j times: result.Add(base) if the bit is set, then base.Double()
mulStep(a, i, b, j) ==
    [i |-> i, j |-> j, bit |-> b % 2,
     result |-> IF b % 2 = 1 THEN Add(a.result, a.base).recv ELSE a.result,
     base |-> Double(a.base)]

\* the inner loop of Multiply from j on; t is the sequence of the iterations so far,
\* each with the result and base it leaves, after the start
RECURSIVE mulBits(_, _, _, _)
mulBits(t, i, b, j) ==
    IF j >= 8 THEN t
    ELSE mulBits(Append(t, mulStep(t[Len(t)], i, b, j)), i, b \div 2, j + 1)

\* the outer loop of Multiply: bytes scalarBytes[i], ..., scalarBytes[1]
RECURSIVE mulBytes(_, _, _)
mulBytes(t, scalarBytes, i) ==
    IF i < 1 THEN t
    ELSE mulBytes(mulBits(t, i, scalarBytes[i], 0), scalarBytes, i - 1)

\* the iterations of Multiply's loops for a scalar of this package that is not zero
mulIterations(r, scalar) ==
    Let([scalarBytes \in {nBytes(scalar.v)} |->
    mulBytes(<<mulStart(Identity(newElement(r.field)), MkElement(r.field, r.x, r.y, r.z),
                        Len(scalarBytes))>>,
             scalarBytes, Len(scalarBytes))])

\* a faulty Multiply: result starts as a copy of the receiver, not as the identity
MultiplyFromReceiver(r, scalar) ==
    IF scalar.type = Nil \/ scalar.v = 0 THEN Outcome(Identity(r), NilElement, Nil, Nil)
    ELSE IF scalar.type # "pallas" THEN Outcome(r, NilElement, "ErrCastScalar", Nil)
    ELSE Let([scalarBytes \in {nBytes(scalar.v)} |->
         Let([t \in {mulBytes(<<mulStart(MkElement(r.field, r.x, r.y, r.z), MkElement(r.field, r.x, r.y, r.z),
                                 Len(scalarBytes))>>,
                      scalarBytes, Len(scalarBytes))} |->
         Let([result \in {t[Len(t)].result} |->
         Outcome(MkElement(r.field, result.x, result.y, result.z), NilElement, Nil, Nil)])])])

Multiply(r, scalar) ==
    IF scalar.type = Nil \/ scalar.v = 0 THEN Outcome(Identity(r), NilElement, Nil, Nil)
    ELSE IF scalar.type # "pallas" THEN Outcome(r, NilElement, "ErrCastScalar", Nil)
    ELSE Let([t \in {mulIterations(r, scalar)} |->
         Let([result \in {t[Len(t)].result} |->
         Outcome(MkElement(r.field, result.x, result.y, result.z), NilElement, Nil, Nil)])])

\* the affine coordinates <<x, y>>; <<>> when z has no inverse (zinv is a nil *big.Int
\* and the next line dereferences it)
toAffine(r) ==
    IF isIdentityInternal(r) THEN <<bInt(r.field, 0), bInt(r.field, 0)>>
    ELSE IF ~bHasInverse(r.field, r.z) THEN <<>>
    ELSE
    Let([f \in {r.field} |->
    Let([zinv \in {bModInverse(f, r.z)} |->
    Let([zinv2 \in {bMulMod(f, zinv, zinv)} |->
    Let([zinv3 \in {bMulMod(f, zinv2, zinv)} |->
    <<bMulMod(f, r.x, zinv2), bMulMod(f, r.y, zinv3)>>])])])])

\* header byte, then x right-aligned in the remaining bytes
Encode(r) ==
    IF isIdentityInternal(r) THEN Zeros(elementLength)
    ELSE
    Let([xy \in {toAffine(r)} |->
    IF Len(xy) = 0 THEN <<>>
    ELSE
    Let([xBytes \in {bBytes(r.field, xy[1])} |->
    Let([start \in {elementLength - Len(xBytes)} |->
    Let([header \in {IF bBit0(r.field, xy[2]) = 0 THEN 2 ELSE 3} |->
    [i \in 1..elementLength |->
        IF i > start THEN xBytes[i - start] ELSE IF i = 1 THEN header ELSE 0]])])])])

\* subtle.ConstantTimeCompare of the two encodings
Equal(r, element) ==
    Let([fault \in {assertElement(element, r.field)} |->
    IF fault # Nil THEN Outcome(r, element, fault, Nil)
    ELSE Outcome(r, element, Nil, IF Encode(r) = Encode(element) THEN 1 ELSE 0)])

IsIdentity(r) == isIdentityInternal(r)

Set(r, element) ==
    IF element.type = Nil THEN Outcome(Identity(r), element, Nil, Nil)
    ELSE Let([fault \in {assertElement(element, r.field)} |->
         IF fault # Nil THEN Outcome(r, element, fault, Nil)
         ELSE Outcome(MkElement(r.field, element.x, element.y, element.z), element, Nil, Nil)])

Copy(r) == MkElement(r.field, r.x, r.y, r.z)

(***************************************************************************)
(* Element.sqrt: Tonelli-Shanks.  The result is [kind, v]: "nil" for a     *)
(* non-residue, "value" with the root, "diverge" when the unsigned         *)
(* exponent m - i - 1 wraps around or t never becomes 1.                   *)
(***************************************************************************)
SqrtNil == [kind |-> "nil", v |-> 0]
SqrtDiverge == [kind |-> "diverge", v |-> 0]
SqrtValue(r) == [kind |-> "value", v |-> r]

\* p - 1 = q * 2^s with q odd: <<q, s>>
tsFactor(f, q, s) ==
    LET Step(qs) == <<bRsh1(f, qs[1]), qs[2] + 1>>
        Done(qs) == bBit0(f, qs[1]) # 0
    IN Iterate(Step, Done, <<q, s>>, LimbBits * NumLimbs)

\* the first z = 2, 3, ... with z^((p-1)/2) = p - 1
tsNonResidue(f, z) ==
    LET Step(w) == bAddMod(f, w, bInt(f, 1))
        Done(w) == bExp(f, w, bRsh1(f, bSubMod(f, bInt(f, 0), bInt(f, 1)))) = bSubMod(f, bInt(f, 0), bInt(f, 1))
    IN Iterate(Step, Done, z, LimbBase)

\* the least i >= 1 with t^(2^i) = 1, tmp being t^(2^i); -1 when there is none up to
\* the 2-adicity s
tsLeast(f, tmp, i, s) ==
    LET Step(w) == <<bMulMod(f, w[1], w[1]), w[2] + 1>>
        Done(w) == w[1] = bInt(f, 1)
    IN Let([w \in {Iterate(Step, Done, <<tmp, i>>, s + 1)} |->
       IF w[1] = bInt(f, 1) THEN w[2] ELSE -1])

\* b squared n times
tsSquare(f, b, n) ==
    LET Step(w) == bMulMod(f, w, w)
    IN Iterate(Step, Never, b, n)

\* the main loop on <<m, c, t, r, diverged>>; every round lowers m, so s + 1 rounds
\* are enough
tsLoop(f, m, c, t, r, s) ==
    LET Step(w) ==
            Let([i \in {tsLeast(f, bMulMod(f, w[3], w[3]), 1, s)} |->
            IF i = -1 \/ w[1] - i - 1 < 0 THEN <<w[1], w[2], w[3], w[4], TRUE>>
            ELSE
            Let([b \in {tsSquare(f, w[2], w[1] - i - 1)} |->
            Let([c2 \in {bMulMod(f, b, b)} |->
            <<i, c2, bMulMod(f, w[3], c2), bMulMod(f, w[4], b), FALSE>>])])])
        Done(w) == w[5] \/ w[3] = bInt(f, 1)
    IN Let([w \in {Iterate(Step, Done, <<m, c, t, r, FALSE>>, s + 1)} |->
       IF w[5] \/ w[3] # bInt(f, 1) THEN SqrtDiverge ELSE SqrtValue(w[4])])

sqrt(f, n) ==
    Let([pm1 \in {bSubMod(f, bInt(f, 0), bInt(f, 1))} |->
    Let([legendre \in {bExp(f, n, bRsh1(f, pm1))} |->
    IF legendre # bInt(f, 1) THEN SqrtNil
    ELSE
    Let([qs \in {tsFactor(f, pm1, 0)} |->
    Let([q \in {qs[1]} |->
    Let([z \in {tsNonResidue(f, bInt(f, 2))} |->
    Let([c \in {bExp(f, z, q)} |->
    Let([t \in {bExp(f, n, q)} |->
    Let([r \in {bExp(f, n, bRsh1(f, bAddMod(f, q, bInt(f, 1))))} |->
    tsLoop(f, qs[2], c, t, r, qs[2])])])])])])])])])

\* a faulty Decode: the header byte is not checked
DecodeAnyHeader(r, data) ==
    Let([f \in {r.field} |->
    Let([ErrInvalid \in {Outcome(r, NilElement, Nil, "ErrParamInvalidPointEncoding")} |->
    IF Len(data) # elementLength THEN ErrInvalid
    ELSE IF \A i \in 1..Len(data) : data[i] = 0 THEN Outcome(Identity(r), NilElement, Nil, Nil)
    ELSE
    Let([p \in {Order(f)} |->
    Let([x \in {bSetBytes(f, Tail(data))} |->
    IF bGeq(f, x, p) THEN ErrInvalid
    ELSE
    Let([y2 \in {bAddMod(f, bMulMod(f, bMulMod(f, x, x), x), bInt(f, curveB))} |->
    Let([y \in {sqrt(f, y2)} |->
    IF y.kind = "nil" THEN ErrInvalid
    ELSE IF y.kind = "diverge" THEN Outcome(r, NilElement, "diverge", Nil)
    ELSE
    Let([ys \in {IF (data[1] = 2) # (bBit0(f, y.v) = 0) THEN bSub(f, p, y.v) ELSE y.v} |->
    Outcome(MkElement(f, x, ys, bInt(f, 1)), NilElement, Nil, Nil)])])])])])])])

\* a faulty Decode: x is stored in the receiver before y is known to exist
DecodeStoresXFirst(r, data) ==
    Let([f \in {r.field} |->
    Let([ErrInvalid \in {Outcome(r, NilElement, Nil, "ErrParamInvalidPointEncoding")} |->
    IF Len(data) # elementLength THEN ErrInvalid
    ELSE IF \A i \in 1..Len(data) : data[i] = 0 THEN Outcome(Identity(r), NilElement, Nil, Nil)
    ELSE IF data[1] # 2 /\ data[1] # 3 THEN ErrInvalid
    ELSE
    Let([p \in {Order(f)} |->
    Let([x \in {bSetBytes(f, Tail(data))} |->
    IF bGeq(f, x, p) THEN ErrInvalid
    ELSE
    Let([y2 \in {bAddMod(f, bMulMod(f, bMulMod(f, x, x), x), bInt(f, curveB))} |->
    Let([y \in {sqrt(f, y2)} |->
    IF y.kind = "nil"
    THEN Outcome(MkElement(f, x, r.y, r.z), NilElement, Nil, "ErrParamInvalidPointEncoding")
    ELSE IF y.kind = "diverge" THEN Outcome(r, NilElement, "diverge", Nil)
    ELSE
    Let([ys \in {IF (data[1] = 2) # (bBit0(f, y.v) = 0) THEN bSub(f, p, y.v) ELSE y.v} |->
    Outcome(MkElement(f, x, ys, bInt(f, 1)), NilElement, Nil, Nil)])])])])])])])

\* the receiver after Decode and the error returned (Nil for no error)
Decode(r, data) ==
    Let([f \in {r.field} |->
    Let([ErrInvalid \in {Outcome(r, NilElement, Nil, "ErrParamInvalidPointEncoding")} |->
    IF Len(data) # elementLength THEN ErrInvalid
    ELSE IF \A i \in 1..Len(data) : data[i] = 0 THEN Outcome(Identity(r), NilElement, Nil, Nil)
    ELSE IF data[1] # 2 /\ data[1] # 3 THEN ErrInvalid
    ELSE
    Let([p \in {Order(f)} |->
    Let([x \in {bSetBytes(f, Tail(data))} |->
    IF bGeq(f, x, p) THEN ErrInvalid
    ELSE
    Let([y2 \in {bAddMod(f, bMulMod(f, bMulMod(f, x, x), x), bInt(f, curveB))} |->
    Let([y \in {sqrt(f, y2)} |->
    IF y.kind = "nil" THEN ErrInvalid
    ELSE IF y.kind = "diverge" THEN Outcome(r, NilElement, "diverge", Nil)
    ELSE
    Let([ys \in {IF (data[1] = 2) # (bBit0(f, y.v) = 0) THEN bSub(f, p, y.v) ELSE y.v} |->
    Outcome(MkElement(f, x, ys, bInt(f, 1)), NilElement, Nil, Nil)])])])])])])])

(***************************************************************************)
(* The element operations as a state machine: one receiver e, created by   *)
(* Group.NewElement(), on which a caller invokes one operation at a time.  *)
(* A call runs the whole handler; call records what was passed and what    *)
(* came back, until the caller takes the result (Return).  A fault ends    *)
(* the run (pc = "panicked").                                              *)
(***************************************************************************)
MaxZ == 1
MaxScalar == 37
MaxHeader == 4
MaxByte == 38
MaxBadByte == 1
MaxScalarByte == 1

ToyField == "toyBase"

\* the affine points of y^2 = x^3 + 5 over the scaled-down field
ToyPoints ==
    {xy \in (0..(ToyP - 1)) \X (0..(ToyP - 1)) :
        (xy[2] * xy[2]) % ToyP = (xy[1] * xy[1] * xy[1] + curveB) % ToyP}

\* operands another caller may hold: the identity and every point, in the Jacobian
\* representations with z up to MaxZ
Operands ==
    {newElement(ToyField)} \cup
    {MkElement(ToyField, (xy[1] * z * z) % ToyP, (xy[2] * z * z * z) % ToyP, z) :
        xy \in ToyPoints, z \in 1..MaxZ}

\* operands assertElement rejects
BadOperands ==
    {NilElement,
     [type |-> "nist", field |-> Nil, x |-> 0, y |-> 0, z |-> 0],
     MkElement("toyScalar", ToyP - 1, generatorY, 1)}

\* the scalars handed to Multiply; those of two bytes stand for the 32 bytes of a
\* Pallas scalar
Scalars ==
    {MkScalar(k) : k \in 0..MaxScalar} \cup
    {MkScalar(256 * hi + 2) : hi \in 1..MaxScalarByte} \cup
    {NilScalar, [type |-> "nist", v |-> 0], [type |-> "nist", v |-> 1]}

\* byte strings handed to Decode
Encoding(h, hi, lo) == <<h>> \o Zeros(scalarLength - 2) \o <<hi, lo>>

DecodeInputs ==
    {Encoding(h, 0, b) : h \in 2..3, b \in 0..MaxByte} \cup
    {Encoding(h, 0, b) : h \in 0..MaxHeader, b \in (0..MaxBadByte) \cup {ToyP - 1}} \cup
    {Encoding(2, 1, 0), Encoding(3, 1, ToyP - 1)} \cup
    {SubSeq(Encoding(2, 0, ToyP - 1), 1, elementLength - 1),
     Encoding(2, 0, ToyP - 1) \o <<0>>, Zeros(elementLength - 1), <<>>}

NoCall ==
    [op |-> Nil, arg |-> NilElement, alias |-> FALSE, scalar |-> NilScalar, data |-> <<>>,
     after |-> NilElement, fault |-> Nil, ret |-> Nil]

\* the state after a call whose outcome is o
Finish(op, arg, alias, scalar, data, outcome) ==
    \E o \in {outcome} :
       /\ e' = o.recv
       /\ pc' = IF o.fault = Nil THEN "returned"
                ELSE IF o.fault = "diverge" THEN "diverged"
                ELSE "panicked"
       /\ call' = [op |-> op, arg |-> arg, alias |-> alias, scalar |-> scalar, data |-> data,
                   after |-> IF alias THEN o.recv ELSE o.arg, fault |-> o.fault, ret |-> o.ret]
       /\ UNCHANGED <<loc, once, mem, caller>>

\* an operand: another element, or the receiver itself
WithOperand(Op(_, _)) ==
    \/ \E q \in Operands \cup BadOperands : Op(q, FALSE)
    \/ Op(e, TRUE)

CallBase == pc = "idle" /\ Finish("Base", NilElement, FALSE, NilScalar, <<>>, Outcome(Base(e), NilElement, Nil, Nil))

CallIdentity == pc = "idle" /\ Finish("Identity", NilElement, FALSE, NilScalar, <<>>, Outcome(Identity(e), NilElement, Nil, Nil))

CallAdd ==
    LET Op(q, alias) == Finish("Add", q, alias, NilScalar, <<>>, Add(e, q))
    IN pc = "idle" /\ WithOperand(Op)

CallDouble == pc = "idle" /\ Finish("Double", NilElement, FALSE, NilScalar, <<>>, Outcome(Double(e), NilElement, Nil, Nil))

CallNegate == pc = "idle" /\ Finish("Negate", NilElement, FALSE, NilScalar, <<>>, Outcome(Negate(e), NilElement, Nil, Nil))

CallSubtract ==
    LET Op(q, alias) == Finish("Subtract", q, alias, NilScalar, <<>>, Subtract(e, q))
    IN pc = "idle" /\ WithOperand(Op)

CallMultiply ==
    /\ pc = "idle"
    /\ \E s \in Scalars : Finish("Multiply", NilElement, FALSE, s, <<>>, Multiply(e, s))

CallEqual ==
    LET Op(q, alias) == Finish("Equal", q, alias, NilScalar, <<>>, Equal(e, q))
    IN pc = "idle" /\ WithOperand(Op)

CallIsIdentity == pc = "idle" /\ Finish("IsIdentity", NilElement, FALSE, NilScalar, <<>>, Outcome(e, NilElement, Nil, IsIdentity(e)))

CallSet ==
    LET Op(q, alias) == Finish("Set", q, alias, NilScalar, <<>>, Set(e, q))
    IN pc = "idle" /\ WithOperand(Op)

CallCopy == pc = "idle" /\ Finish("Copy", NilElement, FALSE, NilScalar, <<>>, Outcome(e, NilElement, Nil, Copy(e)))

CallEncode == pc = "idle" /\ Finish("Encode", NilElement, FALSE, NilScalar, <<>>, Outcome(e, NilElement, Nil, Encode(e)))

CallDecode ==
    /\ pc = "idle"
    /\ \E data \in DecodeInputs : Finish("Decode", NilElement, FALSE, NilScalar, data, Decode(e, data))

\* the caller takes the result and goes on with the receiver
Return ==
    /\ pc = "returned"
    /\ pc' = "idle"
    /\ call' = NoCall
    /\ UNCHANGED <<e, loc, once, mem, caller>>

Init ==
    /\ e = newElement(ToyField)
    /\ pc = "idle"
    /\ call = NoCall
    /\ loc = Nil
    /\ once = Nil
    /\ mem = Nil
    /\ caller = Nil

Next ==
    \/ CallBase \/ CallIdentity \/ CallAdd \/ CallDouble \/ CallNegate \/ CallSubtract
    \/ CallMultiply \/ CallEqual \/ CallIsIdentity \/ CallSet \/ CallCopy \/ CallEncode
    \/ CallDecode \/ Return

Spec == Init /\ [][Next]_vars

(***************************************************************************)
(* Hash-to-curve (internal/pallas/map.go) over the real base field.  The   *)
(* caller hashes one input; the model follows sswuMap statement block by   *)
(* statement block, the locals in loc.                                     *)
(***************************************************************************)
PallasField == "pallasBase"

MaxEncodeInput == 4
MaxHashInput == 1

\* the inputs a caller passes, by index
EncodeInputs == <<"b", "d", "f", "abc", "e">>
HashInputs == <<"2", "0">>

\* the tag passed with every input
dst == "pallas_XMD:BLAKE2b-256_SSWU_RO_"

\* hash2curve.HashToFieldXMD(crypto.BLAKE2b_512, input, dst, count, 1, 48, p): the count
\* field elements expand_message_xmd derives from input and dst, reduced mod p
HashToFieldXMD(input, count) ==
    CASE count = 1 /\ input = "b" ->
        << Rev(<<
             \h002, \h0d8, \h89a, \he0f, \h6cc, \hbb8, \h8c7, \h276, \h3dc, \h801, \hc37,
             \h37e, \h9f7, \hea1, \hd2b, \h461, \h34a, \h6e2, \ha64, \h646, \ha70, \h121 >>) >>
      [] count = 1 /\ input = "d" ->
        << Rev(<<
             \h003, \h777, \h28b, \h58e, \h450, \h9f6, \hd3d, \h781, \he58, \hff5, \h7dc,
             \hd2e, \he5c, \h009, \h86b, \h689, \h743, \h012, \h8b0, \hb71, \hf94, \hb61 >>) >>
      [] count = 1 /\ input = "f" ->
        << Rev(<<
             \h002, \hcfb, \h795, \h7d3, \h372, \h6da, \h3ce, \h2f1, \h585, \h443, \hb31,
             \hb6f, \h465, \h605, \h34e, \he48, \h30d, \he0e, \he27, \h496, \h5ab, \hba7 >>) >>
      [] count = 1 /\ input = "abc" ->
        << Rev(<<
             \h000, \h041, \h661, \h0d4, \hd12, \h8d1, \h950, \h813, \h2d8, \h9b0, \hbf0,
             \hc9a, \h645, \h778, \h4ab, \ha43, \h320, \hdbb, \h309, \h86b, \hf57, \hfa5 >>) >>
      [] count = 1 /\ input = "e" ->
        << Rev(<<
             \h001, \h3ee, \hcea, \hdf6, \hb8a, \h7d7, \h609, \h49c, \h16f, \h069, \h6fe,
             \h89b, \h491, \h04c, \he81, \hbd7, \h004, \h132, \h235, \h2ff, \h1ce, \h72d >>) >>
      [] count = 2 /\ input = "2" ->
        << Rev(<<
             \h003, \hc26, \ha2e, \h4d1, \h9e9, \h31e, \h8f5, \hfc1, \h244, \h389, \h053,
             \he39, \hb7d, \h8de, \h255, \hf52, \h25f, \hbe1, \hbfe, \h65c, \h869, \hc0b >>),
           Rev(<<
             \h003, \hd1f, \h76d, \hd24, \hf74, \h3c4, \h895, \h4a5, \h63f, \h25d, \h7ad,
             \haeb, \h248, \h7b7, \h352, \hc29, \h7ca, \h062, \h545, \h027, \h8e5, \ha6f >>) >>
      [] count = 2 /\ input = "0" ->
        << Rev(<<
             \h002, \h1c1, \h5c1, \hc80, \hf1f, \hbe6, \h143, \h1ab, \he5f, \hbb2, \hfbc,
             \h098, \hcb5, \heba, \h790, \hb4b, \hfdd, \h059, \ha43, \hd05, \h870, \h002 >>),
           Rev(<<
             \h000, \h348, \h8df, \h2a0, \h63f, \hbc3, \h416, \hb60, \h299, \h421, \he88,
             \h7c3, \h18d, \hba3, \h003, \h024, \h0f0, \haea, \h641, \h045, \hd33, \h9ad >>) >>

\* Z = -13 mod p
zSSWU == bSubMod(PallasField, wInt(0), wInt(13))

\* A' of the isogenous curve E': y^2 = x^3 + A'x + B'
aPrime ==
    Rev(<<
      \h001, \h835, \h4a2, \heb0, \hea8, \hc9c, \h49b, \he2d, \h725, \h837, \h074,
      \h2b7, \h413, \h4f1, \hdc2, \hae8, \hc73, \hcfd, \h2fc, \h64a, \hd3c, \h09a >>)

bPrime == wInt(1265)

\* the coefficients of the rational maps, lowest degree first
isogeny ==
    [xNum |-> <<
        Rev(<<
        \h002, \h796, \hd74, \h2ef, \h3c3, \hd3c, \hbf6, \h8c8, \h6bb, \ha1c, \h31c,
        \hd7f, \h19c, \h19e, \hebf, \haca, \h7ef, \h7e1, \h5ea, \h7a1, \hd8f, \h87b >>),
        Rev(<<
        \h003, \h2b7, \hf9b, \h9b7, \hc6a, \he7a, \h9c6, \h7c7, \he3a, \h5bc, \h2e4,
        \ha7d, \h6e3, \hf6a, \h9c8, \hb5d, \h4e7, \hf01, \h234, \h567, \h89a, \hbcd >>),
        Rev(<<
        \h000, \h1ab, \hc7f, \h3e9, \hd8c, \h6b5, \ha4e, \h3f2, \hd1c, \h0b9, \ha8d,
        \h7e6, \hf5c, \h4b3, \ha29, \h18d, \h7e6, \hf5c, \h4b3, \ha29, \h187, \h654 >>),
        wInt(1) >>,
     xDen |-> <<
        Rev(<<
        \h000, \h3a8, \hf7e, \h6d5, \hc4b, \h3a2, \h918, \hd7e, \h6f5, \hc4b, \h3a2,
        \h918, \h7e6, \hd5c, \h4b3, \ha29, \h18d, \h7e6, \hf5c, \h4b3, \ha29, \h187 >>),
        Rev(<<
        \h000, \h02f, \h8e7, \hd6c, \h5b4, \ha39, \h18d, \h7e6, \hf5c, \h4b3, \ha29,
        \h187, \he6d, \h5c4, \hb3a, \h291, \h8d7, \he6f, \h5c4, \hb3a, \h291, \h876 >>),
        wInt(1) >>,
     yNum |-> <<
        Rev(<<
        \h000, \h4c9, \he8d, \h7f6, \ha5b, \h4c3, \hd2e, \h1f0, \h9a8, \hb7c, \h6d5,
        \he4f, \h3a2, \hb1c, \h0d9, \he8f, \h7a6, \hb5c, \h4d3, \he2f, \h1a0, \hb9c >>),
        Rev(<<
        \h000, \h03b, \h8d7, \hc6e, \h5f4, \ha3b, \h2c1, \hd0e, \h9f8, \ha7b, \h6c5,
        \hd4e, \h3f2, \ha1b, \h0c9, \hd8e, \h7f6, \ha5b, \h4c3, \hd2e, \h1f0, \ha9b >>),
        Rev(<<
        \h000, \h02a, \h7c6, \hb5d, \h4e3, \hf2a, \h1b0, \hc9d, \h8e7, \hf6a, \h5b4,
        \hc3d, \h2e1, \hf0a, \h9b8, \hc7d, \h6e5, \hf4a, \h3b2, \hc1d, \h0e9, \hf8a >>),
        Rev(<<
        \h000, \h196, \h85f, \h4e3, \hd2c, \h1b0, \ha9f, \h8e7, \hd6c, \h5b4, \ha39,
        \h18d, \h7e6, \hf5c, \h4b3, \ha29, \h18d, \h7e6, \hf5c, \h4b3, \ha29, \h187 >>),
        wInt(1) >>,
     yDen |-> <<
        Rev(<<
        \h000, \h05d, \h0e9, \hf8a, \h7b6, \hc5d, \h4e3, \hf2a, \h1b0, \hc9d, \h8e7,
        \hf6a, \h5b4, \hc3d, \h2e1, \hf0a, \h9b8, \hc7d, \h6e5, \hf4a, \h3b2, \hc1d >>),
        Rev(<<
        \h000, \h04c, \h9d8, \he7f, \h6a5, \hb4c, \h3d2, \he1f, \h0a9, \hb8c, \h7d6,
        \he5f, \h4a3, \hb2c, \h1d0, \he9f, \h8a7, \hb6c, \h5d4, \he3f, \h2a1, \hb0c >>),
        Rev(<<
        \h000, \h03b, \h8c7, \hd6e, \h5f4, \ha3b, \h2c1, \hd0e, \h9f8, \ha7b, \h6c5,
        \hd4e, \h3f2, \ha1b, \h0c9, \hd8e, \h7f6, \ha5b, \h4c3, \hd2e, \h1f0, \ha9b >>),
        wInt(1) >>]

NoLoc ==
    [u |-> <<>>, which |-> 0, q0 |-> NilElement, q1 |-> NilElement,
     z |-> wInt(0), a |-> wInt(0), b |-> wInt(0),
     tv1 |-> wInt(0), tv2 |-> wInt(0), tv3 |-> wInt(0), tv4 |-> wInt(0), tv5 |-> wInt(0),
     tv6 |-> wInt(0), x |-> wInt(0), y |-> wInt(0), isQR |-> FALSE, y1 |-> wInt(0),
     uv |-> wInt(0), x2 |-> wInt(0), x3 |-> wInt(0), xNumVal |-> wInt(0), xDenVal |-> wInt(0),
     px |-> wInt(0), yNumVal |-> wInt(0), yDenVal |-> wInt(0), py |-> wInt(0)]

\* one block of statements: from position from to position to, the locals becoming l
Step(from, to, l) ==
    /\ pc = from
    /\ pc' = to
    /\ loc' = l
    /\ UNCHANGED <<e, call, once, mem, caller>>

\* the u being mapped
uArg == loc.u[loc.which + 1]

encodeToGroup ==
    /\ pc = "start"
    /\ \E i \in 1..MaxEncodeInput :
          /\ call' = [NoCall EXCEPT !.op = "EncodeToGroup", !.data = <<EncodeInputs[i], dst>>]
          /\ loc' = [NoLoc EXCEPT !.u = HashToFieldXMD(EncodeInputs[i], 1)]
    /\ pc' = "sswuMap"
    /\ UNCHANGED <<e, once, mem, caller>>

hashToGroup ==
    /\ pc = "start"
    /\ \E i \in 1..MaxHashInput :
          /\ call' = [NoCall EXCEPT !.op = "HashToGroup", !.data = <<HashInputs[i], dst>>]
          /\ loc' = [NoLoc EXCEPT !.u = HashToFieldXMD(HashInputs[i], 2)]
    /\ pc' = "sswuMap"
    /\ UNCHANGED <<e, once, mem, caller>>

sswuMap == Step("sswuMap", "tv1", [loc EXCEPT !.z = zSSWU, !.a = aPrime, !.b = bPrime])

\* tv1 = Z * u^2
sswuTv1 ==
    Step("tv1", "tv2", [loc EXCEPT !.tv1 = bMulMod(PallasField, loc.z, bMulMod(PallasField, uArg, uArg))])

\* tv2 = tv1^2 + tv1
sswuTv2 ==
    Step("tv2", "tv3",
         [loc EXCEPT !.tv2 = bAddMod(PallasField, bMulMod(PallasField, loc.tv1, loc.tv1), loc.tv1)])

\* tv3 = B * (tv2 + 1)
sswuTv3 ==
    Step("tv3", "tv4",
         [loc EXCEPT !.tv3 = bMulMod(PallasField, loc.b, bAddMod(PallasField, loc.tv2, wInt(1)))])

\* tv4 = A * CMOV(Z, -tv2, tv2 != 0)
sswuTv4 ==
    LET t == IF bIsZero(PallasField, loc.tv2) THEN loc.z
             ELSE bSubMod(PallasField, wInt(0), loc.tv2)
    IN Step("tv4", "tv6", [loc EXCEPT !.tv4 = bMulMod(PallasField, loc.a, t)])

\* tv2 = tv3^2, tv6 = tv4^2, tv5 = A * tv6
sswuTv6 ==
    /\ pc = "tv6"
    /\ \E tv6 \in {bMulMod(PallasField, loc.tv4, loc.tv4)} :
           Step("tv6", "gx",
                [loc EXCEPT !.tv2 = bMulMod(PallasField, loc.tv3, loc.tv3), !.tv6 = tv6,
                            !.tv5 = bMulMod(PallasField, loc.a, tv6)])

\* tv2 = (tv2 + tv5) * tv3 + B * tv6 * tv4, tv6 = tv6 * tv4, tv5 = B * tv6
sswuGx ==
    /\ pc = "gx"
    /\ \E t2 \in {bMulMod(PallasField, bAddMod(PallasField, loc.tv2, loc.tv5), loc.tv3)} :
       \E tv6 \in {bMulMod(PallasField, loc.tv6, loc.tv4)} :
       \E tv5 \in {bMulMod(PallasField, loc.b, tv6)} :
           Step("gx", "x", [loc EXCEPT !.tv2 = bAddMod(PallasField, t2, tv5), !.tv6 = tv6, !.tv5 = tv5])

\* x = tv1 * tv3, then the call of sqrtRatio(tv2, tv6, p)
sswuX == Step("x", "sqrtRatio", [loc EXCEPT !.x = bMulMod(PallasField, loc.tv1, loc.tv3)])

\* v^-1, (false, 0) when there is none; uv = u / v
sqrtRatioInv ==
    /\ pc = "sqrtRatio"
    /\ IF ~bHasInverse(PallasField, loc.tv6)
       THEN Step("sqrtRatio", "y", [loc EXCEPT !.isQR = FALSE, !.y1 = wInt(0)])
       ELSE Step("sqrtRatio", "modSqrt",
                 [loc EXCEPT !.uv = bMulMod(PallasField, loc.tv2, bModInverse(PallasField, loc.tv6))])

\* big.Int.ModSqrt returns one of the two roots; the caller fixes the sign by sgn0
modSqrt(n) == IF bIsZero(PallasField, n) THEN SqrtValue(wInt(0)) ELSE sqrt(PallasField, n)

\* y = modSqrt(uv): (true, y) when it exists
sqrtRatioSqrt ==
    /\ pc = "modSqrt"
    /\ \E r \in {modSqrt(loc.uv)} :
           IF r.kind = "value"
           THEN Step("modSqrt", "y", [loc EXCEPT !.isQR = TRUE, !.y1 = r.v])
           ELSE Step("modSqrt", "neg", loc)

\* uv = -uv, y = modSqrt(uv): (false, y) when it exists, else (false, 0)
sqrtRatioNeg ==
    /\ pc = "neg"
    /\ \E uv \in {bSubMod(PallasField, wInt(0), loc.uv)} :
       \E r \in {modSqrt(uv)} :
           Step("neg", "y",
                [loc EXCEPT !.uv = uv, !.isQR = FALSE,
                            !.y1 = IF r.kind = "value" THEN r.v ELSE wInt(0)])

\* y = tv1 * u * y1
sswuY ==
    Step("y", "cmov",
         [loc EXCEPT !.y = bMulMod(PallasField, bMulMod(PallasField, loc.tv1, uArg), loc.y1)])

\* x = CMOV(x, tv3, isQR), y = CMOV(y, y1, isQR)
sswuCmov ==
    Step("cmov", "sgn0",
         [loc EXCEPT !.x = IF loc.isQR THEN loc.tv3 ELSE loc.x,
                     !.y = IF loc.isQR THEN loc.y1 ELSE loc.y])

\* y = CMOV(-y, y, sgn0(u) == sgn0(y))
sswuSgn0 ==
    Step("sgn0", "div",
         [loc EXCEPT !.y = IF bBit0(PallasField, uArg) = bBit0(PallasField, loc.y) THEN loc.y
                           ELSE bSubMod(PallasField, wInt(0), loc.y)])

\* x = x / tv4; a tv4 without inverse gives a nil tv4Inv and a fault in Mul
sswuDiv ==
    /\ pc = "div"
    /\ IF ~bHasInverse(PallasField, loc.tv4)
       THEN Step("div", "panicked", loc)
       ELSE Step("div", "isogeny",
                 [loc EXCEPT !.x = bMulMod(PallasField, loc.x, bModInverse(PallasField, loc.tv4))])

\* x^2, x^3
isoPowers ==
    /\ pc = "isogeny"
    /\ \E x2 \in {bMulMod(PallasField, loc.x, loc.x)} :
           Step("isogeny", "xNum", [loc EXCEPT !.x2 = x2, !.x3 = bMulMod(PallasField, x2, loc.x)])

\* xNum = xNum0 + xNum1*x + xNum2*x^2 + xNum3*x^3
isoXNum ==
    LET c  == isogeny.xNum
        t1 == bAddMod(PallasField, c[1], bMulMod(PallasField, c[2], loc.x))
        t2 == bAddMod(PallasField, t1, bMulMod(PallasField, c[3], loc.x2))
    IN Step("xNum", "xDen",
            [loc EXCEPT !.xNumVal = bAddMod(PallasField, t2, bMulMod(PallasField, c[4], loc.x3))])

\* xDen = xDen0 + xDen1*x + xDen2*x^2
isoXDen ==
    LET c  == isogeny.xDen
        t1 == bAddMod(PallasField, c[1], bMulMod(PallasField, c[2], loc.x))
    IN Step("xDen", "px",
            [loc EXCEPT !.xDenVal = bAddMod(PallasField, t1, bMulMod(PallasField, c[3], loc.x2))])

\* px = xNum / xDen; an xDen without inverse gives a nil xDenInv and a fault in Mul
isoPx ==
    /\ pc = "px"
    /\ IF ~bHasInverse(PallasField, loc.xDenVal)
       THEN Step("px", "panicked", loc)
       ELSE Step("px", "yNum",
                 [loc EXCEPT !.px = bMulMod(PallasField, loc.xNumVal,
                                            bModInverse(PallasField, loc.xDenVal))])

\* yNum = yNum0 + yNum1*x + yNum2*x^2 + yNum3*x^3 + yNum4*x^4
isoYNum ==
    LET c  == isogeny.yNum
        x4 == bMulMod(PallasField, loc.x3, loc.x)
        t1 == bAddMod(PallasField, c[1], bMulMod(PallasField, c[2], loc.x))
        t2 == bAddMod(PallasField, t1, bMulMod(PallasField, c[3], loc.x2))
        t3 == bAddMod(PallasField, t2, bMulMod(PallasField, c[4], loc.x3))
    IN Step("yNum", "yDen",
            [loc EXCEPT !.yNumVal = bAddMod(PallasField, t3, bMulMod(PallasField, c[5], x4))])

\* yDen = yDen0 + yDen1*x + yDen2*x^2 + yDen3*x^3
isoYDen ==
    LET c  == isogeny.yDen
        t1 == bAddMod(PallasField, c[1], bMulMod(PallasField, c[2], loc.x))
        t2 == bAddMod(PallasField, t1, bMulMod(PallasField, c[3], loc.x2))
    IN Step("yDen", "py",
            [loc EXCEPT !.yDenVal = bAddMod(PallasField, t2, bMulMod(PallasField, c[4], loc.x3))])

\* py = y * yNum / yDen; a yDen without inverse gives a nil yDenInv and a fault in Mul
isoPy ==
    /\ pc = "py"
    /\ IF ~bHasInverse(PallasField, loc.yDenVal)
       THEN Step("py", "panicked", loc)
       ELSE Step("py", "sswuMapDone",
                 [loc EXCEPT !.py = bMulMod(PallasField,
                                            bMulMod(PallasField, loc.yNumVal,
                                                    bModInverse(PallasField, loc.yDenVal)),
                                            loc.y)])

\* the element sswuMap returns: affine (px, py), Z = 1
sswuElement == MkElement(PallasField, loc.px, loc.py, wInt(1))

\* sswuMap returns to encodeToGroup, which returns the element
encodeToGroupReturn ==
    /\ pc = "sswuMapDone"
    /\ call.op = "EncodeToGroup"
    /\ e' = sswuElement
    /\ pc' = "returned"
    /\ UNCHANGED <<call, loc, once, mem, caller>>

\* q0 := sswuMap(f, u[0]), then the call of sswuMap(f, u[1])
hashToGroupQ0 ==
    /\ call.op = "HashToGroup"
    /\ loc.which = 0
    /\ Step("sswuMapDone", "sswuMap", [loc EXCEPT !.q0 = sswuElement, !.which = 1])

\* q1 := sswuMap(f, u[1])
hashToGroupQ1 ==
    /\ call.op = "HashToGroup"
    /\ loc.which = 1
    /\ Step("sswuMapDone", "q0Add", [loc EXCEPT !.q1 = sswuElement])

\* q0.Add(q1); return q0
hashToGroupAdd ==
    /\ pc = "q0Add"
    /\ e' = Add(loc.q0, loc.q1).recv
    /\ pc' = "returned"
    /\ UNCHANGED <<call, loc, once, mem, caller>>

InitH2C ==
    /\ e = NilElement
    /\ pc = "start"
    /\ call = NoCall
    /\ loc = NoLoc
    /\ once = Nil
    /\ mem = Nil
    /\ caller = Nil

NextH2C ==
    \/ encodeToGroup \/ hashToGroup \/ sswuMap
    \/ sswuTv1 \/ sswuTv2 \/ sswuTv3 \/ sswuTv4 \/ sswuTv6 \/ sswuGx \/ sswuX
    \/ sqrtRatioInv \/ sqrtRatioSqrt \/ sqrtRatioNeg
    \/ sswuY \/ sswuCmov \/ sswuSgn0 \/ sswuDiv
    \/ isoPowers \/ isoXNum \/ isoXDen \/ isoPx \/ isoYNum \/ isoYDen \/ isoPy
    \/ encodeToGroupReturn \/ hashToGroupQ0 \/ hashToGroupQ1 \/ hashToGroupAdd
    \/ Return

SpecH2C == InitH2C /\ [][NextH2C]_vars

(***************************************************************************)
(* Group construction: New() of pallas and P256(), P384(), P521() of nist  *)
(* run their init function under a sync.Once and return the package's      *)
(* Group.  Callers run concurrently; a step is one statement of one        *)
(* caller.  once is the sync.Once (done flag and mutex holder, 0 for none), *)
(* mem the package variables, caller each caller's position and what it    *)
(* got.  initPallas builds the Group and stores the pointer in one          *)
(* assignment; the nist init functions set the fields of the package        *)
(* variable one after the other.                                            *)
(***************************************************************************)
MaxCallers == 3

Callers == 1..MaxCallers

Curves == {"pallas", "p256", "p384", "p521"}

NoGroup == [h2c |-> Nil, NewPoint |-> Nil, mapping |-> Nil, scalarField |-> Nil, baseField |-> Nil]

NoHandle == [var |-> Nil, alloc |-> 0]

\* the scalar field's order, as Order() returns it
OrderOf(curve) == IF curve = "pallas" THEN "pallasGroupOrder" ELSE curve

\* what a call returns: groupPallas as it is now, or the address of the nist variable
HandleOf(m) == IF m.curve = "pallas" THEN m.groupPallas ELSE [var |-> m.curve, alloc |-> 0]

\* every field the curve's methods read is set
Complete(m) ==
    IF m.curve = "pallas"
    THEN m.groupPallas # NoHandle /\ m.group.scalarField # Nil /\ m.group.baseField # Nil
    ELSE m.group.h2c # Nil /\ m.group.NewPoint # Nil /\ m.group.mapping # Nil /\ m.group.scalarField # Nil

At(c, where) == caller[c].pc = where

Goto(c, where) == caller' = [caller EXCEPT ![c].pc = where]

\* Once.Do: the fast path reads done
OnceDo(c) ==
    /\ At(c, "Do")
    /\ Goto(c, IF once.done = 0 THEN "doSlow" ELSE "return")
    /\ UNCHANGED <<e, pc, call, loc, once, mem>>

\* a faulty Once.Do: the mutex is taken without waiting for its holder
OnceLockNoWait(c) ==
    /\ At(c, "doSlow")
    /\ once' = [once EXCEPT !.m = c]
    /\ Goto(c, "locked")
    /\ UNCHANGED <<e, pc, call, loc, mem>>

\* doSlow: o.m.Lock()
OnceLock(c) ==
    /\ At(c, "doSlow")
    /\ once.m = 0
    /\ once' = [once EXCEPT !.m = c]
    /\ Goto(c, "locked")
    /\ UNCHANGED <<e, pc, call, loc, mem>>

\* doSlow: done is read again under the mutex; f starts if it is still 0
OnceCheck(c) ==
    /\ At(c, "locked")
    /\ IF once.done = 0
       THEN /\ mem' = [mem EXCEPT !.runs = mem.runs + 1]
            /\ Goto(c, IF mem.curve = "pallas" THEN "orders" ELSE "h2c")
       ELSE /\ Goto(c, "unlock")
            /\ UNCHANGED mem
    /\ UNCHANGED <<e, pc, call, loc, once>>

\* initPallas: scalarOrder and fieldOrder, locals of the call
initPallasOrders(c) ==
    /\ At(c, "orders")
    /\ caller' = [caller EXCEPT ![c].pc = "assign",
                                ![c].scalarOrder = OrderOf(mem.curve),
                                ![c].fieldOrder = "pallasFieldOrder"]
    /\ UNCHANGED <<e, pc, call, loc, once, mem>>

\* initPallas: groupPallas = &Group{...}
initPallasAssign(c) ==
    /\ At(c, "assign")
    /\ mem' = [mem EXCEPT !.group.scalarField = caller[c].scalarOrder,
                          !.group.baseField = caller[c].fieldOrder,
                          !.groupPallas = [var |-> "groupPallas", alloc |-> mem.runs]]
    /\ Goto(c, "store")
    /\ UNCHANGED <<e, pc, call, loc, once>>

\* initP256, initP384, initP521: the four statements
initNistH2C(c) ==
    /\ At(c, "h2c")
    /\ mem' = [mem EXCEPT !.group.h2c = mem.curve]
    /\ Goto(c, "newPoint")
    /\ UNCHANGED <<e, pc, call, loc, once>>

initNistNewPoint(c) ==
    /\ At(c, "newPoint")
    /\ mem' = [mem EXCEPT !.group.NewPoint = mem.curve]
    /\ Goto(c, "setMapping")
    /\ UNCHANGED <<e, pc, call, loc, once>>

initNistSetMapping(c) ==
    /\ At(c, "setMapping")
    /\ mem' = [mem EXCEPT !.group.mapping = mem.curve]
    /\ Goto(c, "setScalarField")
    /\ UNCHANGED <<e, pc, call, loc, once>>

setScalarField(c) ==
    /\ At(c, "setScalarField")
    /\ mem' = [mem EXCEPT !.group.scalarField = OrderOf(mem.curve)]
    /\ Goto(c, "store")
    /\ UNCHANGED <<e, pc, call, loc, once>>

\* doSlow, after f: the deferred o.done.Store(1)
OnceStore(c) ==
    /\ At(c, "store")
    /\ once' = [once EXCEPT !.done = 1]
    /\ Goto(c, "unlock")
    /\ UNCHANGED <<e, pc, call, loc, mem>>

\* doSlow: the deferred o.m.Unlock()
OnceUnlock(c) ==
    /\ At(c, "unlock")
    /\ once' = [once EXCEPT !.m = 0]
    /\ Goto(c, "return")
    /\ UNCHANGED <<e, pc, call, loc, mem>>

\* return groupPallas / return &p256
New(c) ==
    /\ At(c, "return")
    /\ caller' = [caller EXCEPT ![c].pc = "returned", ![c].handle = HandleOf(mem)]
    /\ UNCHANGED <<e, pc, call, loc, once, mem>>

\* the caller uses the Group it got: Order(), and whether every field was set
GroupOrder(c) ==
    /\ At(c, "returned")
    /\ caller' = [caller EXCEPT ![c].pc = "used",
                                ![c].order = mem.group.scalarField,
                                ![c].complete = Complete(mem)]
    /\ UNCHANGED <<e, pc, call, loc, once, mem>>

InitOnce ==
    /\ e = NilElement
    /\ pc = "New"
    /\ call = NoCall
    /\ loc = Nil
    /\ once = [done |-> 0, m |-> 0]
    /\ \E curve \in Curves : mem = [curve |-> curve, runs |-> 0, group |-> NoGroup, groupPallas |-> NoHandle]
    /\ caller = [c \in Callers |->
                    [pc |-> "Do", scalarOrder |-> Nil, fieldOrder |-> Nil, handle |-> NoHandle,
                     order |-> Nil, complete |-> FALSE]]

NextOnce ==
    \E c \in Callers :
       \/ OnceDo(c) \/ OnceLock(c) \/ OnceCheck(c)
       \/ initPallasOrders(c) \/ initPallasAssign(c)
       \/ initNistH2C(c) \/ initNistNewPoint(c) \/ initNistSetMapping(c) \/ setScalarField(c)
       \/ OnceStore(c) \/ OnceUnlock(c) \/ New(c) \/ GroupOrder(c)

SpecOnce == InitOnce /\ [][NextOnce]_vars

(***************************************************************************)
(* Element.sqrt statement by statement, on the small prime fields.  loc    *)
(* holds the locals: f the field, n the argument, q and s the factors of   *)
(* p - 1, z the non-residue, m, c, t, r the loop's variables, i and tmp    *)
(* those of the search, b and j those of the squaring; call holds the      *)
(* argument and the value returned.  m, i and j are unsigned: with i >= m  *)
(* the bound m - i - 1 of the squaring wraps around, and a search that     *)
(* passes m either has no end or ends in that; the function is then left   *)
(* running (pc = "diverged").                                              *)
(***************************************************************************)
MaxSqrtField == 4

SqrtFields == <<"toy11", "toyBase", "toy17", "toy97", "toy193">>

sqrtReturn(from, ret) ==
    /\ pc = from
    /\ pc' = "returned"
    /\ call' = [call EXCEPT !.ret = ret]
    /\ UNCHANGED <<e, loc, once, mem, caller>>

\* legendre := n^((p-1)/2); anything but 1 returns nil
sqrtLegendre ==
    /\ pc = "sqrt"
    /\ IF bExp(loc.f, loc.n, bRsh1(loc.f, bSubMod(loc.f, bInt(loc.f, 0), bInt(loc.f, 1)))) # bInt(loc.f, 1)
       THEN sqrtReturn("sqrt", SqrtNil)
       ELSE Step("sqrt", "factor",
                 [loc EXCEPT !.q = bSubMod(loc.f, bInt(loc.f, 0), bInt(loc.f, 1)), !.s = 0])

\* for q.Bit(0) == 0 { q.Rsh(q, 1); s++ }
sqrtFactor ==
    /\ pc = "factor"
    /\ IF bBit0(loc.f, loc.q) = 0
       THEN Step("factor", "factor", [loc EXCEPT !.q = bRsh1(loc.f, loc.q), !.s = loc.s + 1])
       ELSE Step("factor", "nonResidue", [loc EXCEPT !.z = bInt(loc.f, 2)])

\* a faulty search for z: 2 is taken without the test
sqrtNonResidueUntested ==
    /\ pc = "nonResidue"
    /\ Step("nonResidue", "setup", loc)

\* for z^((p-1)/2) != p - 1 { z.Add(z, one) }
sqrtNonResidue ==
    /\ pc = "nonResidue"
    /\ \E pm1 \in {bSubMod(loc.f, bInt(loc.f, 0), bInt(loc.f, 1))} :
          IF bExp(loc.f, loc.z, bRsh1(loc.f, pm1)) # pm1
          THEN Step("nonResidue", "nonResidue", [loc EXCEPT !.z = bAddMod(loc.f, loc.z, bInt(loc.f, 1))])
          ELSE Step("nonResidue", "setup", loc)

\* m := s; c := z^q; t := n^q; r := n^((q+1)/2)
sqrtSetup ==
    /\ pc = "setup"
    /\ Step("setup", "loop",
            [loc EXCEPT !.m = loc.s, !.c = bExp(loc.f, loc.z, loc.q), !.t = bExp(loc.f, loc.n, loc.q),
                        !.r = bExp(loc.f, loc.n, bRsh1(loc.f, bAddMod(loc.f, loc.q, bInt(loc.f, 1))))])

\* the head of a round: return r when t is 1, else i := 1; tmp := t^2
sqrtLoop ==
    /\ pc = "loop"
    /\ IF loc.t = bInt(loc.f, 1)
       THEN sqrtReturn("loop", SqrtValue(loc.r))
       ELSE Step("loop", "least", [loc EXCEPT !.i = 1, !.tmp = bMulMod(loc.f, loc.t, loc.t)])

\* for tmp != 1 { tmp = tmp^2; i++ }, then b := c; j := 0
sqrtLeast ==
    /\ pc = "least"
    /\ IF loc.i >= loc.m THEN Step("least", "diverged", loc)
       ELSE IF loc.tmp # bInt(loc.f, 1)
       THEN Step("least", "least", [loc EXCEPT !.tmp = bMulMod(loc.f, loc.tmp, loc.tmp), !.i = loc.i + 1])
       ELSE Step("least", "square", [loc EXCEPT !.b = loc.c, !.j = 0])

\* for j < m - i - 1 { b = b^2 }, then m = i; c = b^2; t = t*c; r = r*b
sqrtSquare ==
    /\ pc = "square"
    /\ IF loc.j < loc.m - loc.i - 1
       THEN Step("square", "square", [loc EXCEPT !.b = bMulMod(loc.f, loc.b, loc.b), !.j = loc.j + 1])
       ELSE \E c \in {bMulMod(loc.f, loc.b, loc.b)} :
               Step("square", "loop",
                    [loc EXCEPT !.m = loc.i, !.c = c, !.t = bMulMod(loc.f, loc.t, c),
                                !.r = bMulMod(loc.f, loc.r, loc.b)])

InitSqrt ==
    /\ e = NilElement
    /\ pc = "sqrt"
    /\ \E k \in 1..MaxSqrtField : \E n \in 0..(Order(SqrtFields[k]) - 1) :
          /\ call = [NoCall EXCEPT !.op = "sqrt", !.data = <<n, Order(SqrtFields[k])>>,
                                   !.ret = [kind |-> "running", v |-> 0]]
          /\ loc = [f |-> SqrtFields[k], n |-> n, q |-> 0, s |-> 0, z |-> 0,
                    m |-> 0, c |-> 0, t |-> 0, r |-> 0, i |-> 0, tmp |-> 0, b |-> 0, j |-> 0]
    /\ once = Nil
    /\ mem = Nil
    /\ caller = Nil

NextSqrt ==
    \/ sqrtLegendre \/ sqrtFactor \/ sqrtNonResidue \/ sqrtSetup
    \/ sqrtLoop \/ sqrtLeast \/ sqrtSquare

\* the function runs alone and every statement reached is executed
SpecSqrt == InitSqrt /\ [][NextSqrt]_vars /\ WF_vars(NextSqrt)

(***************************************************************************)
(* Elements as objects.  mem maps each *Element a caller can hold to what  *)
(* it points to (NilElement for one not yet made): 1 is a receiver from    *)
(* NewElement(), 2 an operand holding the generator, the others are made   *)
(* by Copy().  A call takes its receiver and its operand among them, the   *)
(* operand possibly being the receiver itself, and stores what the method  *)
(* leaves in each; caller records which objects the last call had and      *)
(* returned, loc counts the calls.                                         *)
(***************************************************************************)
MaxCopies == 1
MaxHeapCalls == 4
MaxHeapScalar == 2

heapCopy ==
    /\ loc < MaxHeapCalls
    /\ \E h \in DOMAIN mem : \E k \in DOMAIN mem :
          /\ mem[h].type # Nil
          /\ mem[k].type = Nil
          /\ \A j \in DOMAIN mem : j < k => mem[j].type # Nil
          /\ mem' = [mem EXCEPT ![k] = Copy(mem[h])]
          /\ call' = [NoCall EXCEPT !.op = "Copy"]
          /\ caller' = [recv |-> h, arg |-> 0, ret |-> k]
    /\ loc' = loc + 1
    /\ UNCHANGED <<e, pc, once>>

\* Base, Identity, Double, Negate and Multiply: the receiver alone
heapMutate ==
    /\ loc < MaxHeapCalls
    /\ \E h \in DOMAIN mem :
          /\ mem[h].type # Nil
          /\ \E op \in {"Base", "Identity", "Double", "Negate", "Multiply"} :
             \E v \in 0..(IF op = "Multiply" THEN MaxHeapScalar ELSE 0) :
             \E r \in {IF op = "Base" THEN Base(mem[h])
                       ELSE IF op = "Identity" THEN Identity(mem[h])
                       ELSE IF op = "Double" THEN Double(mem[h])
                       ELSE IF op = "Negate" THEN Negate(mem[h])
                       ELSE Multiply(mem[h], MkScalar(v)).recv} :
                /\ mem' = [mem EXCEPT ![h] = r]
                /\ call' = [NoCall EXCEPT !.op = op, !.scalar = IF op = "Multiply" THEN MkScalar(v) ELSE NilScalar]
                /\ caller' = [recv |-> h, arg |-> 0, ret |-> h]
    /\ loc' = loc + 1
    /\ UNCHANGED <<e, pc, once>>

\* Add, Subtract, Set and Equal: the receiver and an operand
heapOperand ==
    /\ loc < MaxHeapCalls
    /\ \E h \in DOMAIN mem : \E g \in DOMAIN mem :
          /\ mem[h].type # Nil
          /\ mem[g].type # Nil
          /\ \E op \in {"Add", "Subtract", "Set", "Equal"} :
             \E o \in {IF op = "Add" THEN Add(mem[h], mem[g])
                       ELSE IF op = "Subtract" THEN Subtract(mem[h], mem[g])
                       ELSE IF op = "Set" THEN Set(mem[h], mem[g])
                       ELSE Equal(mem[h], mem[g])} :
                /\ mem' = [k \in DOMAIN mem |-> IF k = h THEN o.recv ELSE IF k = g THEN o.arg ELSE mem[k]]
                /\ call' = [NoCall EXCEPT !.op = op, !.alias = (g = h)]
                /\ caller' = [recv |-> h, arg |-> g, ret |-> IF op = "Equal" THEN 0 ELSE h]
    /\ loc' = loc + 1
    /\ UNCHANGED <<e, pc, once>>

InitHeap ==
    /\ e = NilElement
    /\ pc = "idle"
    /\ call = NoCall
    /\ loc = 0
    /\ once = Nil
    /\ mem = [k \in 1..(MaxCopies + 2) |->
                 IF k = 1 THEN newElement(ToyField)
                 ELSE IF k = 2 THEN Base(newElement(ToyField))
                 ELSE NilElement]
    /\ caller = [recv |-> 0, arg |-> 0, ret |-> 0]

NextHeap == heapCopy \/ heapMutate \/ heapOperand

SpecHeap == InitHeap /\ [][NextHeap]_vars

(***************************************************************************)
(* Curve membership: the identity, or an affine point with y^2 = x^3 + 5.  *)
(***************************************************************************)
OnCurve(r) ==
    \/ isIdentityInternal(r)
    \/ /\ bHasInverse(r.field, r.z)
       /\ LET f  == r.field
              xy == toAffine(r)
          IN bMulMod(f, xy[2], xy[2]) =
                bAddMod(f, bMulMod(f, bMulMod(f, xy[1], xy[1]), xy[1]), bInt(f, curveB))

\* the operands a caller combines with the receiver
OperandsOf(f) == IF IsWide(f) THEN {Base(newElement(f))} ELSE Operands

\* C1: every element a caller holds decodes from its own encoding into a fresh element
\* without error and Equal to it, and a successful Decode of b leaves an element that
\* encodes to exactly b
C1_RoundTrip ==
    /\ pc = "idle" =>
          LET d == Decode(newElement(e.field), Encode(e))
          IN d.ret = Nil /\ Equal(d.recv, e).ret = 1
    /\ (pc = "returned" /\ call.op = "Decode" /\ call.ret = Nil) => Encode(e) = call.data

\* C5: for the element a a caller holds and all operands b, c, (a+b)+c and a+(b+c),
\* computed with Add on copies, have the same encoding
C5_Associative ==
    pc = "idle" =>
       \A b, c \in OperandsOf(e.field) :
          Encode(Add(Add(e, b).recv, c).recv) = Encode(Add(e, Add(b, c).recv).recv)

\* C9: the element HashToGroup or EncodeToGroup returns is the identity or satisfies
\* y^2 = x^3 + 5
C9_HashOnCurve ==
    (pc = "returned" /\ call.op \in {"HashToGroup", "EncodeToGroup"}) => OnCurve(e)

\* the operand of the call is one assertElement accepts for the receiver r
OperandOk(r, q) == q.type = "pallas" /\ q.field = r.field

\* the sums of 0, 1, ..., n copies of p, each built with Add from the one before,
\* the first being the identity
SumsOf(p, n) ==
    LET Plus(s) == Append(s, Add(s[Len(s)], p).recv)
    IN Iterate(Plus, Never, <<Identity(newElement(p.field))>>, n)

\* C2: for the element e a caller holds, Multiply by a scalar k leaves the receiver
\* Equal to the sum of k copies of e built with Add from the identity; Base times the
\* group order is the identity, Base times 1 is Base, Base times 2 is Base doubled; an
\* absent or zero scalar leaves the identity
C2_MultiplyIsRepeatedAdd ==
    pc = "idle" =>
       LET sums == SumsOf(e, MaxScalar)
           g    == Base(newElement(e.field))
       IN /\ \A s \in Scalars :
                (s.type = Nil \/ s.v = 0) =>
                   (Multiply(e, s).fault = Nil /\ IsIdentity(Multiply(e, s).recv))
          /\ \A k \in 0..MaxScalar :
                /\ Multiply(e, MkScalar(k)).fault = Nil
                /\ Equal(Multiply(e, MkScalar(k)).recv, sums[k + 1]).ret = 1
          /\ e = g =>
                /\ IsIdentity(Multiply(e, MkScalar(ToyN)).recv)
                /\ Equal(Multiply(e, MkScalar(1)).recv, g).ret = 1
                /\ Equal(Multiply(e, MkScalar(2)).recv, Double(g)).ret = 1

C2_Witness ==
    /\ pc = "returned"
    /\ call.op = "Multiply"
    /\ call.scalar = MkScalar(ToyN - 2)
    /\ ~IsIdentity(e)
    /\ Equal(e, Base(newElement(e.field))).ret = 0

\* C3: e.Add(Identity) leaves e Equal to its previous value, Identity.Add(q) leaves the
\* receiver Equal to q, Double and Negate keep the identity, and IsIdentity is true for
\* NewElement() and after Identity()
C3_IdentityNeutral ==
    [][pc = "idle" =>
         /\ (call'.op = "Add" /\ OperandOk(e, call'.arg) /\ IsIdentity(call'.arg)) =>
               (pc' = "returned" /\ Equal(e', e).ret = 1)
         /\ (call'.op = "Add" /\ OperandOk(e, call'.arg) /\ IsIdentity(e)) =>
               (pc' = "returned" /\ Equal(e', call'.arg).ret = 1)
         /\ (call'.op \in {"Double", "Negate"} /\ IsIdentity(e)) =>
               (pc' = "returned" /\ IsIdentity(e'))
         /\ call'.op = "Identity" => (pc' = "returned" /\ IsIdentity(e'))
         /\ (call'.op = "IsIdentity" /\ e \in {newElement(e.field), Identity(e)}) =>
               (pc' = "returned" /\ call'.ret = TRUE)]_vars

C3_Witness ==
    /\ pc = "returned"
    /\ call.op = "Add"
    /\ OperandOk(e, call.arg)
    /\ IsIdentity(call.arg)
    /\ ~IsIdentity(e)
    /\ e.z # 1

\* C4: for a non-identity e, adding an operand Equal to the negation of a copy of e
\* leaves the identity, and so does subtracting an operand Equal to e, the receiver
\* itself included, whatever the z of either
C4_InverseLaw ==
    [][(pc = "idle" /\ ~IsIdentity(e) /\ OperandOk(e, call'.arg)) =>
         /\ (call'.op = "Add" /\ Equal(call'.arg, Negate(Copy(e))).ret = 1) =>
               (pc' = "returned" /\ IsIdentity(e'))
         /\ (call'.op = "Subtract" /\ Equal(call'.arg, e).ret = 1) =>
               (pc' = "returned" /\ IsIdentity(e'))]_vars

C4_Witness ==
    /\ pc = "returned"
    /\ call.op = "Subtract"
    /\ call.alias
    /\ ~IsIdentity(call.arg)
    /\ call.arg.z # 1
    /\ IsIdentity(e)

\* the coordinate a 33-byte encoding carries, and whether its x^3 + 5 has a square root
CoordinateOf(data) == nSetBytes(SubSeq(data, 2, Len(data)), 0)

HasRoot(x) == \E y \in 0..(ToyP - 1) : (y * y) % ToyP = (x * x * x + curveB) % ToyP

AllZero(data) == \A i \in 1..Len(data) : data[i] = 0

\* C6 as stated: Decode returns the error exactly for an input that is not 33 bytes
\* long, or is not all zero and starts with neither 2 nor 3, or has x >= p, or
\* has an x whose x^3 + 5 has no square root
C6_AsStated ==
    (pc # "idle" /\ call.op = "Decode") =>
       LET data == call.data
           bad  == \/ Len(data) # elementLength
                   \/ ~AllZero(data) /\ data[1] \notin {2, 3}
                   \/ CoordinateOf(data) >= ToyP
                   \/ ~HasRoot(CoordinateOf(data))
       IN pc = "returned" /\ call.ret = IF bad THEN "ErrParamInvalidPointEncoding" ELSE Nil

\* C6: Decode returns the error exactly for an input that is not 33 bytes long, or is
\* 33 bytes, not all zero, and either starts with neither 2 nor 3, or has x >= p, or
\* has an x whose x^3 + 5 has no square root; 33 zero bytes decode without error
C6_DecodeErrors ==
    (pc # "idle" /\ call.op = "Decode") =>
       LET data == call.data
           bad  == \/ Len(data) # elementLength
                   \/ /\ ~AllZero(data)
                      /\ \/ data[1] \notin {2, 3}
                         \/ CoordinateOf(data) >= ToyP
                         \/ ~HasRoot(CoordinateOf(data))
       IN pc = "returned" /\ call.ret = IF bad THEN "ErrParamInvalidPointEncoding" ELSE Nil

C6_Witness ==
    /\ pc = "returned"
    /\ call.op = "Decode"
    /\ call.data = Encoding(3, 0, 1)
    /\ call.ret = "ErrParamInvalidPointEncoding"

\* C7: Add, Subtract and Equal with an operand that is nil, of another backend, or of
\* another field end in a fault, return nothing, and leave the receiver as it was
C7_BadOperandPanics ==
    [][(pc = "idle" /\ call'.op \in {"Add", "Subtract", "Equal"} /\ ~OperandOk(e, call'.arg)) =>
         (pc' = "panicked" /\ call'.fault # Nil /\ call'.ret = Nil /\ e' = e)]_vars

C7_Witness ==
    /\ pc = "panicked"
    /\ call.op = "Subtract"
    /\ call.arg.type = "pallas"
    /\ call.arg.field # e.field
    /\ ~IsIdentity(e)

\* C8: the receiver, and the operand after a call, is the identity or satisfies
\* y^2 = x^3 + 5
C8_OnCurve ==
    /\ OnCurve(e)
    /\ OperandOk(e, call.after) => OnCurve(call.after)

C8_Witness ==
    /\ pc = "returned"
    /\ call.op = "Add"
    /\ ~IsIdentity(e)
    /\ e.z # 1
    /\ ~IsIdentity(call.arg)

Legendre(n) ==
    bExp(PallasField, n, bRsh1(PallasField, bSubMod(PallasField, wInt(0), wInt(1))))

\* (x, y) satisfies y^2 = x^3 + a*x + b
OnIsogenousCurve(x, y, a, b) ==
    bMulMod(PallasField, y, y) =
       bAddMod(PallasField,
               bAddMod(PallasField, bMulMod(PallasField, bMulMod(PallasField, x, x), x),
                       bMulMod(PallasField, a, x)),
               b)

\* C11: the (x, y) that sswuMapToIsogenousCurve returns for a non-square Z and non-zero
\* A', B' satisfies y^2 = x^3 + A'x + B', whether the ratio handed to sqrtRatio is a
\* square or not
C11_OnIsogenousCurve ==
    (/\ pc = "isogeny"
     /\ ~bIsZero(PallasField, loc.a)
     /\ ~bIsZero(PallasField, loc.b)
     /\ Legendre(loc.z) = bSubMod(PallasField, wInt(0), wInt(1)))
       => OnIsogenousCurve(loc.x, loc.y, loc.a, loc.b)

\* C12: sqrtRatio(tv2, tv6, p) with an invertible tv6 returns (true, y1) with
\* y1^2 = tv2/tv6 when tv2/tv6 is a square, and otherwise (false, y1) with
\* y1^2 = -(tv2/tv6)
C12_SqrtRatio ==
    (pc = "y" /\ bHasInverse(PallasField, loc.tv6)) =>
       Let([ratio \in {bMulMod(PallasField, loc.tv2, bModInverse(PallasField, loc.tv6))} |->
       Let([square \in {bIsZero(PallasField, ratio) \/ Legendre(ratio) = wInt(1)} |->
          /\ loc.isQR = square
          /\ bMulMod(PallasField, loc.y1, loc.y1) =
                IF square THEN ratio ELSE bSubMod(PallasField, wInt(0), ratio)])])

\* C13: Set with a nil operand ends in a fault
C13_SetNilPanics ==
    (call.op = "Set" /\ call.arg.type = Nil) => pc = "panicked"

\* n has a square root other than 0 in the field f
IsResidue(f, n) == \E y \in 1..(Order(f) - 1) : (y * y) % Order(f) = n

\* what holds at every statement of sqrt: the search stays below m, and what is
\* returned is a root of a residue, nil for a non-residue, and what sqrt(f, n) is
C14_SqrtRounds ==
    /\ pc # "diverged"
    /\ pc = "least" => loc.i < loc.m
    /\ pc = "square" => (loc.i >= 1 /\ loc.m - loc.i - 1 >= 0 /\ loc.j <= loc.m - loc.i - 1)
    /\ (pc = "returned" /\ IsResidue(loc.f, loc.n)) =>
          call.ret.kind = "value" /\ (call.ret.v * call.ret.v) % Order(loc.f) = loc.n
    /\ (pc = "returned" /\ loc.n # 0 /\ ~IsResidue(loc.f, loc.n)) => call.ret = SqrtNil
    /\ pc = "returned" => call.ret = sqrt(loc.f, loc.n)

\* C14: for an odd prime p, sqrt(n, p) ends for every n; in every round the least i
\* with t^(2^i) = 1 is below m, so m - i - 1 does not wrap around; the value returned
\* is r with r^2 = n for a non-zero residue n and nil for a non-residue
C14_SqrtTerminates == [](C14_SqrtRounds) /\ <>(pc = "returned")

\* a residue's root returned after the loop ran at least one round
C14_Witness ==
    /\ pc = "returned"
    /\ IsResidue(loc.f, loc.n)
    /\ call.ret.kind = "value"
    /\ loc.m < loc.s

\* C15: a Decode that returns the error leaves the receiver as it was; a Decode that
\* succeeds sets all of x, y, z from the data, whatever the receiver held
C15_FailedDecodeKeeps ==
    [][(pc = "idle" /\ call'.op = "Decode") =>
          IF call'.ret # Nil THEN e' = e /\ pc' = "returned"
          ELSE /\ pc' = "returned"
               /\ e' = Decode(newElement(ToyField), call'.data).recv
               /\ IF AllZero(call'.data) THEN e'.z = 0
                  ELSE /\ e'.x = CoordinateOf(call'.data)
                       /\ (e'.y * e'.y) % ToyP = (e'.x * e'.x * e'.x + curveB) % ToyP
                       /\ e'.y % 2 = call'.data[1] - 2
                       /\ e'.z = 1]_vars

\* a Decode has failed on a receiver that holds a point other than the identity
C15_Witness ==
    /\ pc = "returned"
    /\ call.op = "Decode"
    /\ call.ret = "ErrParamInvalidPointEncoding"
    /\ Len(call.data) = elementLength
    /\ call.data[1] = 2
    /\ CoordinateOf(call.data) < ToyP
    /\ ~HasRoot(CoordinateOf(call.data))
    /\ e.z # 0
    /\ OnCurve(e)

Canonical(r) ==
    /\ r.x \in 0..(ToyP - 1)
    /\ r.y \in 0..(ToyP - 1)
    /\ r.z \in 0..(ToyP - 1)
    /\ IsIdentity(r) <=> r.z % ToyP = 0
    /\ ~IsIdentity(r) => /\ bHasInverse(r.field, r.z)
                         /\ (r.z * bModInverse(r.field, r.z)) % ToyP = 1
                         /\ Len(toAffine(r)) = 2

\* C17: the receiver after any sequence of Base, Identity, Add, Double, Negate,
\* Subtract, Multiply, Set, Copy and Decode, and the element Copy returns, have x, y, z
\* in [0, p); IsIdentity holds exactly when z is 0 modulo p, and otherwise z has an
\* inverse, so that toAffine succeeds
C17_CanonicalCoordinates ==
    /\ Canonical(e)
    /\ (pc = "returned" /\ call.op = "Copy") => Canonical(call.ret)

\* a negated point whose z is neither 0 nor 1
C17_Witness ==
    /\ pc = "returned"
    /\ call.op = "Negate"
    /\ e.z > 1
    /\ e.y > 0

\* the iterations of Multiply(scalar) on r, the scalar being one of this package and
\* not zero: one for each bit of each byte, starting from the identity and a copy of r
MulShape(r, scalar, t) ==
    /\ Len(t) = 8 * Len(nBytes(scalar.v)) + 1
    /\ IsIdentity(t[1].result)
    /\ t[1].base = Copy(r)

\* C18 as stated: the n-th iteration is on the n-th bit from the top, first byte first
\* and highest bit first; it doubles the accumulator and then adds the original point
\* when the bit is 1
C18_AsStated ==
    [][(pc = "idle" /\ call'.op = "Multiply" /\ call'.scalar.type = "pallas" /\ call'.scalar.v # 0) =>
          \E t \in {mulIterations(e, call'.scalar)} :
             /\ MulShape(e, call'.scalar, t)
             /\ \A n \in 1..(Len(t) - 1) :
                   /\ t[n + 1].i = 1 + (n - 1) \div 8
                   /\ t[n + 1].j = 7 - ((n - 1) % 8)
                   /\ t[n + 1].bit = (call'.scalar.v \div 2^(Len(t) - 1 - n)) % 2
                   /\ t[n + 1].result =
                         IF t[n + 1].bit = 1 THEN Add(Double(t[n].result), Copy(e)).recv
                         ELSE Double(t[n].result)
             /\ e' = t[Len(t)].result]_vars

\* C18: Multiply is a right-to-left double-and-add: the n-th iteration is on the n-th
\* bit from the bottom, last byte first and lowest bit first; it adds the running
\* base, which starts as a copy of the receiver, to the result when the bit is 1 and
\* then doubles the base; the receiver gets the last result
C18_RightToLeft ==
    [][(pc = "idle" /\ call'.op = "Multiply" /\ call'.scalar.type = "pallas" /\ call'.scalar.v # 0) =>
          \E t \in {mulIterations(e, call'.scalar)} :
             /\ MulShape(e, call'.scalar, t)
             /\ \A n \in 1..(Len(t) - 1) :
                   /\ t[n + 1].i = Len(nBytes(call'.scalar.v)) - (n - 1) \div 8
                   /\ t[n + 1].j = (n - 1) % 8
                   /\ t[n + 1].bit = (call'.scalar.v \div 2^(n - 1)) % 2
                   /\ t[n + 1].result =
                         IF t[n + 1].bit = 1 THEN Add(t[n].result, t[n].base).recv
                         ELSE t[n].result
                   /\ t[n + 1].base = Double(t[n].base)
             /\ e' = t[Len(t)].result]_vars

\* a point was multiplied by the two-byte scalar 0x0102
C18_Witness ==
    /\ pc = "returned"
    /\ call.op = "Multiply"
    /\ call.scalar = MkScalar(258)
    /\ ~IsIdentity(e)
    /\ e.z > 1

====
